---- MODULE Spec2Model ----
(***************************************************************************)
(* Streaming-ingestion pipeline of llm-trading-app: the batch buffer and   *)
(* writer (PricePollerService), the storage write (DatabaseService) and    *)
(* the reconnecting stream client (BinanceWebSocketService).               *)
(*                                                                         *)
(* The repository holds two implementations of every service.  The        *)
(* variable impl selects the stack:                                        *)
(*   "pricePoller"  : services/pricePoller.ts + services/database.ts       *)
(*                    + services/binanceWebSocket.ts                       *)
(*   "price-poller" : services/price-poller.ts + database/index.ts         *)
(*                    + services/binance-websocket.ts                      *)
(***************************************************************************)
EXTENDS Integers, Sequences, FiniteSets, Bags

\* ------------------------------------------------------------------ bounds
MaxBatchSize == 2       \* config.batchSize ranges over 1..MaxBatchSize
MaxTrades == 4          \* trade events the feed delivers; trade ids 1..MaxTrades
MaxInserts == 3         \* insertTradesBatch calls that resolve
MaxBatchLen == 2        \* longest batch passed to insertTradesBatch on its own
batchTimeout == 2       \* config.batchTimeout, in time units
MaxSockets == 2         \* WebSockets alive at the same time
MaxTimers == 3          \* reconnect timers pending at the same time
MaxFatalCount == 3      \* emissions of the fatal condition that are counted
MaxMsgFailures == 2     \* failures in a row of the feed that delivers messages
MaxSilence == 3         \* liveness checks without a message that are counted
MaxEnvelopes == 2       \* trade envelopes the normalizer turns into trades
MaxRetried == 3         \* trade events on the store that recovers
MaxCalls == 2           \* insertTradesBatch calls followed step by step
MaxStreamMessages == 1  \* messages followed in either stream form

\* ------------------------------------------------ reconnect configuration
reconnectDelay == 1000        \* config.binance.reconnectDelay (ms)
backoffMultiplier == 2        \* config.binance.backoffMultiplier
maxReconnectDelay == 30000    \* config.binance.maxReconnectDelay (ms)
maxReconnectAttempts == 10    \* BinanceWebSocketService.maxReconnectAttempts
checkInterval == 30000        \* period of the ping / heartbeat interval (ms)
silenceThreshold == 60000     \* setupPingInterval: 1 minute without messages

Impls == {"pricePoller", "price-poller"}

VARIABLES
  impl,          \* which implementation of the services is running
  batchSize,     \* config.batchSize / config.performance.batchSize
  isRunning,     \* PricePollerService.isRunning
  wsOpen,        \* the poller's websocket is connected (trade events can arrive)
  startPc,       \* position of a start() call: "idle", "db", "ws"
  buffer,        \* batchBuffer / tradeBuffer
  batchTimer,    \* <<>> when no timer is pending, <<n>>: due in n time units
  inflight,      \* batches handed to insertTradesBatch that have not resolved
  errorCount,    \* PricePollerService.errorCount (pricePoller)
  totalBatches,  \* totalBatches (pricePoller)
  processed,     \* metrics.tradesProcessed (price-poller)
  arrived,       \* trade events received so far; totalTrades (pricePoller)
  dbOpen,        \* the poller's database service is connected
  awaited,       \* the batch of the final flush that stop() awaits / awaited
  store,         \* raw_trades: trade id -> number of rows
  uniqueTradeId, \* raw_trades.trade_id carries a UNIQUE constraint
  lastInsert,    \* the most recent insertTradesBatch call that resolved
  waited,        \* <<n>>: time since a record entered the empty idle buffer
  sockets,       \* bag of the WebSockets alive with their listeners attached
  timers,        \* pending reconnect timers (setTimeout), in scheduling order
  reconnectAttempts, \* BinanceWebSocketService.reconnectAttempts
  isConnected,   \* BinanceWebSocketService.isConnected (binance-websocket)
  pingInterval,  \* the ping / heartbeat interval is running
  connectCalled, \* connect() has been called
  fatalCount,    \* how often the fatal condition has been emitted
  failures,      \* connection failures since the last successful open
  proc,          \* the process: "up", "stopping", "disconnected", "exited"
  lastMsg,       \* the message handled last and what its handler did
  silence,       \* liveness checks since the last message (lastMessageTime)
  response,      \* the answer to the last GET /health request
  second,        \* a second start() / stop() call overlapping the first
  tx             \* the insertTradesBatch call in progress and its pool client

pollerVars == <<isRunning, wsOpen, startPc, buffer, batchTimer, inflight,
                errorCount, totalBatches, processed, arrived, dbOpen, awaited>>
dbVars == <<store, uniqueTradeId, lastInsert, tx>>
clientVars == <<sockets, timers, reconnectAttempts, isConnected, pingInterval,
                connectCalled, fatalCount, failures, lastMsg, silence>>
wsVars == <<clientVars, proc>>
vars == <<impl, batchSize, pollerVars, dbVars, waited, lastMsg, silence, wsVars,
          response, second>>

TradeIds == 1..MaxTrades
NoInsert == [n |-> 0, trades |-> <<>>, outage |-> FALSE, ok |-> TRUE]
\* No second call: start and stop are the positions of a second start() and
\* stop() call, awaited the batch the second stop() awaits, sockets and timers
\* the WebSockets and batch timers the second start() added to the first's.
NoSecond == [start |-> "idle", stop |-> "idle", awaited |-> <<>>,
             sockets |-> 0, timers |-> 0]
NaN == [nan |-> TRUE, mant |-> 0, scale |-> 0]
NoEvent == [s |-> "none", p |-> <<>>, q |-> <<>>, m |-> FALSE, t |-> 0]
NoTrade == [symbol |-> "none", price |-> NaN, quantity |-> NaN, side |-> "none",
            tradeId |-> 0]
NoResponse == [code |-> 0, status |-> "none", error |-> FALSE,
               checks |-> <<>>]
NoMessage == [text |-> "none", e |-> "none", data |-> "none",
              trade |-> FALSE, escaped |-> FALSE, counted |-> FALSE,
              event |-> NoEvent, out |-> NoTrade]

\* ----------------------------------------------------------------- helpers
Seqs(b) == {b[i].seq : i \in DOMAIN b}
Ids(b) == {b[i].tradeId : i \in DOMAIN b}
Rows == [id \in TradeIds |-> 0]
Count(trades, id) == Cardinality({i \in DOMAIN trades : trades[i].tradeId = id})

\* ------------------------------------------------------------ DatabaseService
\* No insertTradesBatch call yet: pc is the position of the call, trades its
\* argument, i the trade the loop is at, snapshot the table as it was at BEGIN,
\* error what the call rejected with, out the clients checked out of the pool,
\* acquired and released the pool.connect() and client.release() of the call.
NoTx == [pc |-> "idle", trades |-> <<>>, i |-> 0, snapshot |-> Rows,
         error |-> "none", out |-> 0, calls |-> 0, acquired |-> 0,
         released |-> 0]

\* A unique violation: the id is stored already, or occurs earlier in the batch.
Conflicts(rows, trades) ==
  \/ \E i \in DOMAIN trades : rows[trades[i].tradeId] > 0
  \/ \E i, j \in DOMAIN trades : i < j /\ trades[i].tradeId = trades[j].tradeId

\* database/index.ts: BEGIN; one plain INSERT per trade; COMMIT.  Any failing
\* query rolls the transaction back and the error is rethrown.
InsertPlain(rows, unique, trades, outage) ==
  IF outage \/ (unique /\ Conflicts(rows, trades))
  THEN [ok |-> FALSE, rows |-> rows]
  ELSE [ok |-> TRUE, rows |-> [id \in TradeIds |-> rows[id] + Count(trades, id)]]

\* services/database.ts: one INSERT ... ON CONFLICT (trade_id) DO NOTHING, on
\* the schema whose trade_id is UNIQUE.
InsertOnConflict(rows, trades, outage) ==
  IF outage
  THEN [ok |-> FALSE, rows |-> rows]
  ELSE [ok |-> TRUE,
        rows |-> [id \in TradeIds |->
                   IF rows[id] = 0 /\ id \in Ids(trades) THEN 1 ELSE rows[id]]]

\* An empty batch returns before the pool is touched.
insertTradesBatch(rows, unique, trades, outage) ==
  IF trades = <<>> THEN [ok |-> TRUE, rows |-> rows]
  ELSE IF impl = "pricePoller"
  THEN InsertOnConflict(rows, trades, outage)
  ELSE InsertPlain(rows, unique, trades, outage)

\* The schema each stack ships: database/init (trade_id BIGINT UNIQUE) with
\* services/database.ts, and the schema without the constraint with
\* database/index.ts.
SchemaUnique(i) == i = "pricePoller"

\* ------------------------------------------------------- PricePollerService
\* The size check of addTradeToBatch / addTradeToBuffer.
SizeTriggerOffByOne(buf) == Len(buf) > batchSize
SizeTrigger(buf) == Len(buf) >= batchSize

\* The catch branch of processBatch: what the buffer holds after a failed persist.
Requeue(trades, buf) ==
  IF impl = "pricePoller"
  THEN trades \o buf
  ELSE IF Len(buf) < batchSize * 2 THEN trades \o buf ELSE buf

\* startBatchTimer (pricePoller): any pending timer is cleared, a new one armed.
\* startBatchProcessing (price-poller): setInterval, one tick every batchTimeout.
ArmedTooLong == <<batchTimeout + 1>>
NeverArmed == <<>>
startBatchTimer == <<batchTimeout>>

\* processBatch up to its await: the buffer is copied and cleared and the copy
\* is passed to insertTradesBatch; pricePoller also clears its timer.
processBatch(buf) ==
  IF buf = <<>>
  THEN /\ buffer' = buf
       /\ UNCHANGED <<inflight, batchTimer>>
  ELSE /\ buffer' = <<>>
       /\ inflight' = inflight \cup {buf}
       /\ batchTimer' = IF impl = "pricePoller" THEN <<>> ELSE batchTimer

\* start(): connect the database, connect the websocket, arm the timer.
StartCall ==
  /\ proc = "up"
  /\ ~isRunning /\ startPc = "idle"
  /\ startPc' = "db"
  /\ UNCHANGED <<impl, second, response, batchSize, dbOpen, awaited, isRunning, wsOpen, buffer,
                 batchTimer, inflight, errorCount, totalBatches, processed,
                 arrived, dbVars, wsVars>>

\* start() rejects: both applications call process.exit(1).
StartFailed(ok) == IF ok THEN proc ELSE "exited"

\* `await this.db.connect()` settles.
StartDbConnected(ok) ==
  /\ startPc = "db"
  /\ startPc' = IF ok THEN "ws" ELSE "idle"
  /\ dbOpen' = ok
  /\ proc' = StartFailed(ok)
  /\ UNCHANGED <<impl, second, response, batchSize, awaited, isRunning, wsOpen, buffer,
                 batchTimer, inflight, errorCount, totalBatches, processed,
                 arrived, dbVars, clientVars>>

\* `await this.binanceWS.connect()` settles; on success start() arms the
\* timer and sets isRunning before any other event is handled.
StartWsConnected(ok) ==
  /\ startPc = "ws"
  /\ startPc' = "idle"
  /\ wsOpen' = ok
  /\ isRunning' = ok
  /\ batchTimer' = IF ok THEN startBatchTimer ELSE batchTimer
  /\ proc' = StartFailed(ok)
  /\ UNCHANGED <<impl, second, response, batchSize, dbOpen, awaited, buffer, inflight, errorCount,
                 totalBatches, processed, arrived, dbVars, clientVars>>

\* addTradeToBatch on a buffer that the batches in flight share.
addTradeToSharedBatch(id) ==
  /\ LET buf == Append(buffer, [seq |-> arrived + 1, tradeId |-> id])
     IN IF SizeTrigger(buf)
        THEN processBatch(buf)
        ELSE /\ buffer' = buf
             /\ inflight' = {Append(b, buf[Len(buf)]) : b \in inflight}
             /\ UNCHANGED batchTimer
  /\ arrived' = arrived + 1

\* A 'trade' event: addTradeToBatch (pricePoller) / addTradeToBuffer (price-poller).
addTradeToBatch(id) ==
  /\ LET buf == Append(buffer, [seq |-> arrived + 1, tradeId |-> id])
     IN IF SizeTrigger(buf)
        THEN processBatch(buf)
        ELSE buffer' = buf /\ UNCHANGED <<inflight, batchTimer>>
  /\ arrived' = arrived + 1

AddTrade(id) ==
  /\ proc # "exited"
  /\ wsOpen
  /\ arrived < MaxTrades
  /\ addTradeToBatch(id)
  /\ UNCHANGED <<impl, second, response, batchSize, dbOpen, awaited, isRunning, wsOpen, startPc,
                 errorCount, totalBatches, processed, dbVars, wsVars>>

\* The batch timer's callback.  pricePoller: a setTimeout that either processes
\* the buffer or re-arms itself.  price-poller: a setInterval that keeps running.
TimerFires ==
  /\ proc # "exited"
  /\ batchTimer # <<>>
  /\ IF impl = "pricePoller"
     THEN IF Len(buffer) > 0
          THEN processBatch(buffer)
          ELSE batchTimer' = startBatchTimer /\ UNCHANGED <<buffer, inflight>>
     ELSE /\ batchTimer' = startBatchTimer
          /\ IF Len(buffer) > 0
             THEN buffer' = <<>> /\ inflight' = inflight \cup {buffer}
             ELSE UNCHANGED <<buffer, inflight>>
  /\ UNCHANGED <<impl, second, response, batchSize, dbOpen, awaited, isRunning, wsOpen, startPc,
                 errorCount, totalBatches, processed, arrived, dbVars, wsVars>>

\* flush() / flushBuffer(): processBatch() if the buffer holds anything.
FlushOldestOnly ==
  /\ proc # "exited"
  /\ IF Len(buffer) > 0
     THEN processBatch(<<Head(buffer)>>)
     ELSE UNCHANGED <<buffer, inflight, batchTimer>>
  /\ UNCHANGED <<impl, second, response, batchSize, dbOpen, awaited, isRunning, wsOpen, startPc,
                 errorCount, totalBatches, processed, arrived, dbVars, wsVars>>
Flush ==
  /\ proc # "exited"
  /\ IF Len(buffer) > 0
     THEN processBatch(buffer)
     ELSE UNCHANGED <<buffer, inflight, batchTimer>>
  /\ UNCHANGED <<impl, second, response, batchSize, dbOpen, awaited, isRunning, wsOpen, startPc,
                 errorCount, totalBatches, processed, arrived, dbVars, wsVars>>

\* stop() runs on from `await this.processBatch()` when the persist of the
\* batch it handed over has settled.
StopAwaitsAny(trades) == proc = "stopping"
StopAwaits(trades) == proc = "stopping" /\ trades = awaited

\* insertTradesBatch settles and processBatch runs on from its await; a
\* stop() that awaits this processBatch then disconnects the websocket.
\* lastInsert.n counts the call if `counted`.
Persisted(trades, outage, counted) ==
  /\ LET r == insertTradesBatch(store, uniqueTradeId, trades, outage)
     IN /\ store' = r.rows
        /\ lastInsert' = [n |-> lastInsert.n + (IF counted THEN 1 ELSE 0),
                          trades |-> trades, outage |-> outage, ok |-> r.ok]
        /\ buffer' = IF r.ok THEN buffer ELSE Requeue(trades, buffer)
        /\ errorCount' = IF ~r.ok /\ impl = "pricePoller"
                         THEN errorCount + 1 ELSE errorCount
        /\ totalBatches' = IF r.ok /\ impl = "pricePoller"
                           THEN totalBatches + 1 ELSE totalBatches
        /\ processed' = IF r.ok /\ impl = "price-poller"
                        THEN processed + Len(trades) ELSE processed
  /\ inflight' = inflight \ {trades}
  /\ batchTimer' = IF impl = "pricePoller" THEN startBatchTimer ELSE batchTimer
  /\ IF StopAwaits(trades)
     THEN wsOpen' = FALSE /\ proc' = "disconnected"
     ELSE UNCHANGED <<wsOpen, proc>>
  /\ UNCHANGED <<impl, second, response, batchSize, dbOpen, awaited, isRunning, startPc, arrived,
                 uniqueTradeId, tx, clientVars>>

\* A persist settles, one of at most MaxInserts.
PersistResolves(trades, outage) ==
  /\ proc # "exited"
  /\ trades \in inflight
  /\ lastInsert.n < MaxInserts
  /\ Persisted(trades, outage, TRUE)

\* A persist settles on a store whose outages end: at most MaxInserts
\* persists fail (lastInsert.n counts the failed ones).
PersistSettles(trades, outage) ==
  /\ proc # "exited"
  /\ trades \in inflight
  /\ outage => lastInsert.n < MaxInserts
  /\ Persisted(trades, outage, outage)

\* stop(), called by the application's shutdown: isRunning is reset, the batch
\* timer cleared, and a non-empty buffer handed to processBatch and awaited;
\* with an empty buffer the websocket is disconnected at once.  On SIGINT and
\* SIGTERM (signal) the price-poller process runs two listeners, the poller's
\* shutdown() and the application's, whose stop() finds isRunning reset and
\* returns, so that process.exit(0) is reached before the first stop() runs on
\* from its await.
StopCall(signal) ==
  /\ proc = "up"
  /\ isRunning
  /\ isRunning' = FALSE
  /\ batchTimer' = <<>>
  /\ IF buffer = <<>>
     THEN /\ wsOpen' = FALSE
          /\ proc' = IF signal /\ impl = "price-poller"
                     THEN "exited" ELSE "disconnected"
          /\ UNCHANGED <<buffer, inflight, awaited>>
     ELSE /\ buffer' = <<>>
          /\ inflight' = inflight \cup {buffer}
          /\ awaited' = buffer
          /\ proc' = IF signal /\ impl = "price-poller"
                     THEN "exited" ELSE "stopping"
          /\ UNCHANGED wsOpen
  /\ UNCHANGED <<impl, second, response, batchSize, dbOpen, startPc, errorCount, totalBatches,
                 processed, arrived, dbVars, clientVars>>

\* `await this.db.disconnect()` resolves: stop() emits 'stopped' and returns,
\* and the application calls process.exit(0).
StopDbDisconnected ==
  /\ proc = "disconnected"
  /\ dbOpen' = FALSE
  /\ proc' = "exited"
  /\ UNCHANGED <<impl, second, response, batchSize, awaited, isRunning, wsOpen, startPc, buffer,
                 batchTimer, inflight, errorCount, totalBatches, processed,
                 arrived, dbVars, clientVars>>

PollerStep ==
  \/ StartCall
  \/ \E ok \in BOOLEAN : StartDbConnected(ok)
  \/ \E ok \in BOOLEAN : StartWsConnected(ok)
  \/ AddTrade(arrived + 1)
  \/ Flush
  \/ \E trades \in inflight, outage \in BOOLEAN : PersistResolves(trades, outage)

\* The state the constructors leave.
PollerConstructed ==
  /\ isRunning = FALSE
  /\ wsOpen = FALSE
  /\ startPc = "idle"
  /\ buffer = <<>>
  /\ batchTimer = <<>>
  /\ inflight = {}
  /\ errorCount = 0
  /\ totalBatches = 0
  /\ processed = 0
  /\ arrived = 0
  /\ dbOpen = FALSE
  /\ awaited = <<>>
  /\ waited = <<>>
  /\ second = NoSecond

WsConstructed ==
  /\ sockets = EmptyBag
  /\ timers = <<>>
  /\ reconnectAttempts = 0
  /\ isConnected = FALSE
  /\ pingInterval = FALSE
  /\ connectCalled = FALSE
  /\ fatalCount = 0
  /\ failures = 0
  /\ proc = "up"
  /\ lastMsg = NoMessage
  /\ silence = 0
  /\ response = NoResponse

InitPoller ==
  /\ impl \in Impls
  /\ batchSize \in 1..MaxBatchSize
  /\ PollerConstructed
  /\ WsConstructed
  /\ store = Rows
  /\ tx = NoTx
  /\ uniqueTradeId = SchemaUnique(impl)
  /\ lastInsert = NoInsert

\* The poller with its timer firing at any moment while it is pending.
NextPoller ==
  \/ PollerStep /\ UNCHANGED waited
  \/ TimerFires /\ UNCHANGED waited

SpecPoller == InitPoller /\ [][NextPoller]_vars

\* ------------------------------------------------------------ the poller in time
\* One time unit passes; a timer that is due fires before time goes on.
TimePasses ==
  /\ proc # "exited"
  /\ isRunning
  /\ batchTimer # <<>> => batchTimer[1] > 0
  /\ batchTimer' = IF batchTimer = <<>> THEN <<>> ELSE <<batchTimer[1] - 1>>
  /\ waited' = IF waited = <<>> THEN <<>>
               ELSE IF waited[1] > batchTimeout THEN waited
               ELSE <<waited[1] + 1>>
  /\ UNCHANGED <<impl, second, response, batchSize, dbOpen, awaited, isRunning, wsOpen, startPc,
                 buffer, inflight, errorCount, totalBatches, processed, arrived,
                 dbVars, wsVars>>

Idle == isRunning /\ buffer = <<>> /\ inflight = {}

\* waited follows the oldest record of a buffer that was empty and idle when the
\* record arrived, until the buffer is handed on.
Track ==
  waited' = IF buffer' = <<>> THEN <<>>
            ELSE IF Idle THEN <<0>>
            ELSE waited

NextTimed ==
  \/ PollerStep /\ Track
  \/ batchTimer # <<>> /\ batchTimer[1] = 0 /\ TimerFires /\ Track
  \/ TimePasses

SpecTimed == InitPoller /\ [][NextTimed]_vars

\* ------------------------------------------------- the poller and its shutdown
NextStop ==
  \/ PollerStep /\ UNCHANGED waited
  \/ TimerFires /\ UNCHANGED waited
  \/ \E signal \in BOOLEAN : StopCall(signal) /\ UNCHANGED waited
  \/ StopDbDisconnected /\ UNCHANGED waited

SpecStop == InitPoller /\ [][NextStop]_vars

\* ------------------------------------------------------- the store on its own
\* Every batch of at most MaxBatchLen trades over the trade ids 1..MaxBatchLen.
Batches ==
  UNION {[1..n -> [seq : {0}, tradeId : 1..MaxBatchLen]] : n \in 0..MaxBatchLen}

\* A caller awaits insertTradesBatch(trades).
DbInsert(trades, outage) ==
  /\ lastInsert.n < MaxInserts
  /\ LET r == insertTradesBatch(store, uniqueTradeId, trades, outage)
     IN /\ store' = r.rows
        /\ lastInsert' = [n |-> lastInsert.n + 1, trades |-> trades,
                          outage |-> outage, ok |-> r.ok]
  /\ UNCHANGED <<impl, second, response, batchSize, pollerVars, uniqueTradeId, tx,
                 waited, wsVars>>

InitDB ==
  /\ impl \in Impls
  /\ batchSize = 1
  /\ PollerConstructed
  /\ WsConstructed
  /\ store = Rows
  /\ tx = NoTx
  /\ uniqueTradeId \in {SchemaUnique(impl), TRUE}
  /\ lastInsert = NoInsert

NextDB == \E trades \in Batches, outage \in BOOLEAN : DbInsert(trades, outage)

SpecDB == InitDB /\ [][NextDB]_vars

\* ================================================================== claims

\* C1: every batch handed to the Writer (the array processBatch passes to
\* insertTradesBatch) contains at most batchSize records.
C1_BatchWithinBatchSize == \A b \in inflight : Len(b) <= batchSize

\* C2: the buffer occupancy never exceeds 2 x batchSize.
C2_OccupancyCapped == Len(buffer) <= 2 * batchSize

\* C3: persisting a trade id that is stored already, or twice in one call, is a
\* no-op and not an error, and the store holds at most one row per trade id.
C3_IdempotentPersist ==
  /\ ~lastInsert.outage => lastInsert.ok
  /\ \A id \in TradeIds : store[id] <= 1

\* How many times the record of arrival number s occurs in the buffer, in the
\* batches the Writer holds and in the store (the feed of SpecPoller gives
\* arrival s the trade id s).
Occurrences(s) ==
  Cardinality({i \in DOMAIN buffer : buffer[i].seq = s})
  + Cardinality({b \in inflight : s \in Seqs(b)})
  + store[s]

\* C4: every record accepted by add is in exactly one of the active buffer, a
\* batch held by the Writer, the store, or the set counted as dropped (the
\* services count no drops, so that set is empty).
C4_ExactlyOnePlace == \A s \in 1..arrived : Occurrences(s) = 1

\* A step in which an insertTradesBatch call rejects.
PersistFailed == lastInsert'.n = lastInsert.n + 1 /\ ~lastInsert'.ok

\* C5: every failed batch is put back whole at the front of the buffer, ahead
\* of the records that arrived since it was swapped out, whatever the buffer
\* holds.
C5_AlwaysRequeuedAtFront ==
  [][PersistFailed => buffer' = lastInsert'.trades \o buffer]_vars

\* C6: in every batch handed to the Writer the records are in arrival order.
C6_BatchesInArrivalOrder ==
  \A b \in inflight : \A i, j \in DOMAIN b : i < j => b[i].seq < b[j].seq

\* C7: a record added to the empty buffer of the running, idle service is
\* handed to the Writer at most batchTimeout later: while it waits the timer is
\* pending and due no later than that, the buffer holds exactly the records
\* that arrived since, a hand-over without a new trade passes exactly that
\* buffer, and a timer that finds the buffer empty only re-arms itself.
C7_Waiting ==
  waited # <<>> =>
    /\ waited[1] <= batchTimeout
    /\ batchTimer # <<>> /\ waited[1] + batchTimer[1] <= batchTimeout
    /\ buffer # <<>>
    /\ \A i \in DOMAIN buffer : buffer[i].seq = arrived - Len(buffer) + i
C7_HandOver ==
  /\ (waited # <<>> /\ waited' = <<>> /\ arrived' = arrived) =>
       (buffer' = <<>> /\ inflight' = inflight \cup {buffer})
  /\ (isRunning /\ batchTimer = <<0>> /\ buffer = <<>>
        /\ arrived' = arrived /\ lastInsert' = lastInsert) =>
       (buffer' = <<>> /\ inflight' = inflight /\ batchTimer' = <<batchTimeout>>)
C7_FlushedWithinTimeout == []C7_Waiting /\ [][C7_HandOver]_vars

\* C7 witness: a record has waited the whole batchTimeout and the timer is due.
C7_Witness == waited = <<batchTimeout>> /\ batchTimer = <<0>> /\ Len(buffer) = 1

\* C8: add appends exactly the one record and hands the buffer to the Writer
\* in the same step if and only if the buffer then holds at least batchSize
\* records.
C8_AddStep ==
  arrived' = arrived + 1 =>
    LET buf == Append(buffer, [seq |-> arrived + 1, tradeId |-> arrived + 1])
    IN IF Len(buf) >= batchSize
       THEN buffer' = <<>> /\ inflight' = inflight \cup {buf}
       ELSE buffer' = buf /\ inflight' = inflight
C8_AddFlushesAtBatchSize == [][C8_AddStep]_vars

\* C8 witness: batchSize > 1 records arrived back-to-back in the empty buffer
\* and are with the Writer as one batch, nothing else having happened.
C8_Witness ==
  /\ batchSize > 1 /\ arrived = batchSize /\ buffer = <<>>
  /\ inflight = {[i \in 1..batchSize |-> [seq |-> i, tradeId |-> i]]}
  /\ lastInsert = NoInsert

\* ===================================================== BinanceWebSocketService
\* The reconnect state machine of the two BinanceWebSocketService classes:
\* impl = "price-poller" runs the binance-websocket class (createConnection,
\* reconnect, cleanup), impl = "pricePoller" the binanceWebSocket class
\* (connect with a connection timeout, no cleanup).  A socket is in `sockets`
\* while it is alive and its listeners are attached; a timer is in `timers`
\* while its setTimeout is pending.  Of the events the service emits, only
\* the fatal condition is followed to its listeners.

RECURSIVE Pow(_, _)
Pow(b, n) == IF n = 0 THEN 1 ELSE b * Pow(b, n - 1)

Min(a, b) == IF a <= b THEN a ELSE b

\* Math.min(reconnectDelay * Math.pow(backoffMultiplier, attempts), max)
Delay(attempts) ==
  Min(reconnectDelay * Pow(backoffMultiplier, attempts), maxReconnectDelay)

RemoveAt(seq, i) == SubSeq(seq, 1, i - 1) \o SubSeq(seq, i + 1, Len(seq))

\* A socket: its readyState, who awaits the promise of its connection attempt
\* ("connect": start(), "reconnect": reconnect() or the reconnect timer
\* callback, "none": settled), and whether it is the one held in this.ws.
NewSocket(by) == [state |-> "connecting", waiter |-> by, cur |-> TRUE]
One(w) == SetToBag({w})

\* `this.ws = new WebSocket(url)`: the new socket replaces the current one,
\* which stays alive with its listeners.
Replaced(socks) ==
  LET old == {[w EXCEPT !.cur = FALSE] : w \in BagToSet(socks)}
  IN [v \in old |-> CopiesIn(v, socks)
                      + CopiesIn([v EXCEPT !.cur = TRUE], socks)]
Opened(socks, by) == Replaced(socks) (+) One(NewSocket(by))

\* The timers without the one held in this.reconnectTimeout.
ClearTimeout(pending) == SelectSeq(pending, LAMBDA t : ~t.cur)
Superseded(pending) == [k \in DOMAIN pending |-> [pending[k] EXCEPT !.cur = FALSE]]

WsState == [attempts |-> reconnectAttempts, timers |-> timers,
            fatal |-> fatalCount]

\* scheduleReconnect() with the limit tested one attempt late.
scheduleReconnectLate(s) ==
  IF s.attempts > maxReconnectAttempts
  THEN [s EXCEPT !.fatal = @ + 1]
  ELSE [s EXCEPT !.timers = Append(Superseded(@),
                                   [delay |-> Delay(s.attempts), cur |-> TRUE]),
                 !.attempts = @ + 1]

\* scheduleReconnect(): at the attempt limit it emits the fatal condition and
\* returns; otherwise it computes the delay from the attempt counter,
\* increments the counter and stores the new timer in reconnectTimeout
\* without clearing the previous one.
scheduleReconnect(s) ==
  IF s.attempts >= maxReconnectAttempts
  THEN [s EXCEPT !.fatal = @ + 1]
  ELSE [s EXCEPT !.timers = Append(Superseded(@),
                                   [delay |-> Delay(s.attempts), cur |-> TRUE]),
                 !.attempts = @ + 1]

\* The listeners of the fatal condition: the price-poller application logs
\* the error; the pricePoller application's criticalError listener calls
\* gracefulShutdown().
OnFatal(emitted) ==
  IF emitted /\ impl = "pricePoller" THEN "stopping" ELSE proc

\* What scheduleReconnect() calls leave behind, within the bounds.
Scheduled(s) ==
  /\ Len(s.timers) <= MaxTimers
  /\ s.fatal <= MaxFatalCount
  /\ timers' = s.timers
  /\ reconnectAttempts' = s.attempts
  /\ fatalCount' = s.fatal
  /\ proc' = OnFatal(s.fatal > fatalCount)

\* start() rejects when the first connection attempt fails, and both
\* applications then call process.exit(1).
Exit ==
  /\ proc' = "exited"
  /\ sockets' = EmptyBag
  /\ timers' = <<>>
  /\ pingInterval' = FALSE

\* connect() of the poller's start(): the first connection attempt.
Connect ==
  /\ proc = "up"
  /\ ~connectCalled
  /\ connectCalled' = TRUE
  /\ sockets' = Opened(sockets, "connect")
  /\ UNCHANGED <<impl, second, response, batchSize, pollerVars, dbVars, waited, lastMsg, silence, timers,
                 reconnectAttempts, isConnected, pingInterval, fatalCount,
                 failures, proc>>

\* 'open' on a connecting socket: the counter is reset; binance-websocket sets
\* isConnected and, the awaited promise resolving, setupPingInterval();
\* binanceWebSocket calls startHeartbeat() in its once('open') listener.
SocketOpens(w) ==
  /\ proc # "exited"
  /\ w \in BagToSet(sockets)
  /\ w.state = "connecting"
  /\ sockets' = (sockets (-) One(w))
                  (+) One([w EXCEPT !.state = "open", !.waiter = "none"])
  /\ reconnectAttempts' = 0
  /\ failures' = 0
  /\ isConnected' = IF impl = "price-poller" THEN TRUE ELSE isConnected
  /\ pingInterval' = TRUE
  /\ silence' = 0
  /\ UNCHANGED <<impl, second, response, batchSize, pollerVars, dbVars, waited, lastMsg, timers,
                 connectCalled, fatalCount, proc>>

\* 'close' on an established socket: the close listener calls
\* scheduleReconnect(); binanceWebSocket also stops the heartbeat.
SocketCloses(w) ==
  /\ proc # "exited"
  /\ w \in BagToSet(sockets)
  /\ w.state = "open"
  /\ Scheduled(scheduleReconnect(WsState))
  /\ sockets' = sockets (-) One(w)
  /\ failures' = failures + 1
  /\ isConnected' = IF impl = "price-poller" THEN FALSE ELSE isConnected
  /\ pingInterval' = IF impl = "pricePoller" THEN FALSE ELSE pingInterval
  /\ UNCHANGED <<impl, second, response, batchSize, pollerVars, dbVars, waited, lastMsg, silence,
                 connectCalled>>

\* A connection attempt fails: the socket emits 'error' and then 'close'.
\* The error listener rejects the awaited promise, the close listener calls
\* scheduleReconnect(), and then the rejection reaches the catch block:
\* reconnect() / the reconnect timer callback call scheduleReconnect() again,
\* the first connect() rethrows to start().  An attempt that had timed out
\* before has been counted as a failure already.
SocketFails(w) ==
  /\ proc # "exited"
  /\ w \in BagToSet(sockets)
  /\ w.state = "connecting"
  /\ IF w.waiter = "connect"
     THEN /\ Exit
          /\ failures' = failures + 1
          /\ UNCHANGED <<isConnected, reconnectAttempts, fatalCount>>
     ELSE /\ LET closed == scheduleReconnect(WsState)
             IN Scheduled(IF w.waiter = "reconnect"
                          THEN scheduleReconnect(closed) ELSE closed)
          /\ failures' = IF w.waiter = "reconnect" \/ failures = 0
                         THEN failures + 1 ELSE failures
          /\ sockets' = sockets (-) One(w)
          /\ isConnected' = IF impl = "price-poller" THEN FALSE
                            ELSE isConnected
          /\ pingInterval' = IF impl = "pricePoller" THEN FALSE
                             ELSE pingInterval
  /\ UNCHANGED <<impl, second, response, batchSize, pollerVars, dbVars, waited, lastMsg, silence,
                 connectCalled>>

\* binanceWebSocket connect(): the 10 s connection timeout rejects the awaited
\* promise; the socket is neither closed nor detached.  The timeout of a socket
\* that disconnect() has detached is still pending and fires as well.
ConnectTimeout(w) ==
  /\ proc # "exited"
  /\ impl = "pricePoller"
  /\ w \in BagToSet(sockets)
  /\ w.state \in {"connecting", "detached"}
  /\ w.waiter # "none"
  /\ IF w.waiter = "connect"
     THEN /\ Exit
          /\ UNCHANGED <<reconnectAttempts, fatalCount>>
     ELSE /\ Scheduled(scheduleReconnect(WsState))
          /\ sockets' = IF w.state = "detached" THEN sockets (-) One(w)
                        ELSE (sockets (-) One(w))
                               (+) One([w EXCEPT !.waiter = "none"])
          /\ UNCHANGED pingInterval
  /\ failures' = failures + 1
  /\ UNCHANGED <<impl, second, response, batchSize, pollerVars, dbVars, waited, lastMsg, silence, isConnected,
                 connectCalled>>

\* binance-websocket reconnect(): cleanup() detaches and terminates the current
\* socket, clears the timer held in reconnectTimeout and the ping interval,
\* then createConnection() opens a new socket.  `pending` are the timers that
\* are still pending when it is called.
reconnect(pending) ==
  /\ sockets' = One(NewSocket("reconnect"))
  /\ timers' = ClearTimeout(pending)
  /\ pingInterval' = FALSE
  /\ isConnected' = FALSE

\* binanceWebSocket connect() from the reconnect timer: nothing if the current
\* socket is open, otherwise a new socket next to the old ones.
connect(pending) ==
  /\ timers' = pending
  /\ IF \E w \in BagToSet(sockets) : w.cur /\ w.state = "open"
     THEN sockets' = sockets
     ELSE /\ BagCardinality(sockets) < MaxSockets
          /\ sockets' = Opened(sockets, "reconnect")
  /\ UNCHANGED <<pingInterval, isConnected>>

\* A timer scheduled earlier with a delay that is not longer fires first.
Due(i) == \A j \in 1..(i - 1) : timers[j].delay > timers[i].delay

\* The callback of reconnect timer i runs.
ReconnectTimerFires(i) ==
  /\ proc # "exited"
  /\ i \in DOMAIN timers
  /\ Due(i)
  /\ IF impl = "price-poller"
     THEN reconnect(RemoveAt(timers, i))
     ELSE connect(RemoveAt(timers, i))
  /\ UNCHANGED <<impl, second, response, batchSize, pollerVars, dbVars, waited, lastMsg, silence,
                 reconnectAttempts, connectCalled, fatalCount, failures, proc>>

\* binance-websocket setupPingInterval(): the interval callback finds the
\* last message older than one minute and calls reconnect().
LivenessCheck ==
  /\ proc # "exited"
  /\ impl = "price-poller"
  /\ pingInterval
  /\ reconnect(timers)
  /\ UNCHANGED <<impl, second, response, batchSize, pollerVars, dbVars, waited, lastMsg, silence,
                 reconnectAttempts, connectCalled, fatalCount, failures, proc>>

\* SIGINT, SIGTERM or an uncaught exception: the application begins its
\* shutdown and calls the poller's stop().  price-poller stop() returns at once
\* while start() has not completed, and the application exits.
Shutdown ==
  /\ proc = "up"
  /\ connectCalled
  /\ IF impl = "price-poller" /\ \E w \in BagToSet(sockets) : w.waiter = "connect"
     THEN Exit
     ELSE proc' = "stopping" /\ UNCHANGED <<sockets, timers, pingInterval>>
  /\ UNCHANGED <<impl, second, response, batchSize, pollerVars, dbVars, waited, lastMsg, silence,
                 reconnectAttempts, isConnected, connectCalled, fatalCount,
                 failures>>

\* binance-websocket cleanup(), which is all disconnect() does: this.ws is
\* detached and terminated, the timer held in reconnectTimeout and the ping
\* interval are cleared, isConnected is reset.
cleanup ==
  /\ sockets' = [w \in {v \in BagToSet(sockets) : ~v.cur} |-> sockets[w]]
  /\ timers' = ClearTimeout(timers)
  /\ pingInterval' = FALSE
  /\ isConnected' = FALSE

\* What binanceWebSocket disconnect() leaves of the sockets: this.ws is
\* detached, and closed if it is open; the connection timeout of an attempt in
\* progress stays pending ("detached").
Detached(socks) ==
  LET pending == {w \in BagToSet(socks) :
                    w.cur /\ w.state = "connecting" /\ w.waiter # "none"}
      kept == {w \in BagToSet(socks) : ~w.cur}
  IN [w \in kept |-> socks[w]]
       (+) [v \in {[w EXCEPT !.state = "detached", !.cur = FALSE] : w \in pending}
              |-> socks[[v EXCEPT !.state = "connecting", !.cur = TRUE]]]

\* binanceWebSocket disconnect(): the timer held in reconnectTimeout and the
\* heartbeat are cleared, this.ws is detached.
disconnect ==
  /\ sockets' = Detached(sockets)
  /\ timers' = ClearTimeout(timers)
  /\ pingInterval' = FALSE
  /\ UNCHANGED isConnected

\* stop() of the poller reaches the disconnect() of its websocket service.
ShutdownDisconnects ==
  /\ proc = "stopping"
  /\ proc' = "disconnected"
  /\ IF impl = "price-poller" THEN cleanup ELSE disconnect
  /\ UNCHANGED <<impl, second, response, batchSize, pollerVars, dbVars, waited, lastMsg, silence,
                 reconnectAttempts, connectCalled, fatalCount, failures>>

\* gracefulShutdown() ends in process.exit(0) once stop() has returned.
ProcessExits ==
  /\ proc = "disconnected"
  /\ Exit
  /\ UNCHANGED <<impl, second, response, batchSize, pollerVars, dbVars, waited, lastMsg, silence,
                 reconnectAttempts, isConnected, connectCalled, fatalCount,
                 failures>>

\* ------------------------------------------------------------ messages
\* What a socket delivers: text that is not JSON ("garbage"), the JSON value
\* null, or an object with an optional event tag e and an optional
\* {stream, data} wrapper whose data is an object with an optional tag e
\* ("untagged": without one).  "other" stands for every tag but "trade"; the
\* ticker and kline events of binance-websocket are not followed.
Tags == {"trade", "other"}
Messages ==
  [text : {"garbage", "null"}, e : {"none"}, data : {"none"}]
    \cup [text : {"object"}, e : Tags \cup {"none"},
          data : Tags \cup {"none", "untagged"}]

\* What running a piece of handler code does: emit a trade event or not,
\* throw or return.
Thrown == [trade |-> FALSE, threw |-> TRUE]
Ignored == [trade |-> FALSE, threw |-> FALSE]
Rethrow(r) == r
\* try { ... } catch (error) { logger.error(...) }
Catch(r) == [r EXCEPT !.threw = FALSE]

\* binance-websocket processEvent: switch (event.e); 'trade' emits the trade.
processEvent(tag) == Catch([trade |-> tag = "trade", threw |-> FALSE])

\* binanceWebSocket processTrade: builds the trade and emits it.
processTrade == Catch([trade |-> TRUE, threw |-> FALSE])

\* handleMessage: JSON.parse throws on text that is not JSON, and reading a
\* property of null throws.  binance-websocket looks at message.e first and
\* catches everything; binanceWebSocket looks at the wrapper first and
\* catches nothing.
handleMessage(m) ==
  IF impl = "price-poller"
  THEN Catch(IF m.text # "object" THEN Thrown
             ELSE IF m.e # "none" THEN processEvent(m.e)
             ELSE IF m.data # "none" THEN processEvent(m.data)
             ELSE Ignored)
  ELSE IF m.text # "object" THEN Thrown
       ELSE IF m.data # "none"
            THEN IF m.data = "trade" THEN processTrade ELSE Ignored
       ELSE IF m.e = "trade" THEN processTrade
       ELSE Ignored

\* The 'message' listener of the socket: binance-websocket calls
\* handleMessage, binanceWebSocket calls it inside try / catch and counts
\* what it catches (errorCount++).
OnMessage(m) ==
  IF impl = "price-poller" THEN handleMessage(m) ELSE Catch(handleMessage(m))

\* A socket whose listeners are attached delivers message m.
\* binance-websocket records the time of the message before it decodes it.
MessageArrives(m) ==
  /\ proc # "exited"
  /\ \E w \in BagToSet(sockets) : w.state = "open"
  /\ lastMsg' = [text |-> m.text, e |-> m.e, data |-> m.data,
                 trade |-> OnMessage(m).trade, escaped |-> OnMessage(m).threw,
                 counted |-> impl = "pricePoller" /\ handleMessage(m).threw,
                 event |-> NoEvent, out |-> NoTrade]
  /\ silence' = 0
  /\ UNCHANGED <<impl, second, response, batchSize, pollerVars, dbVars, waited, sockets, timers,
                 reconnectAttempts, isConnected, pingInterval, connectCalled,
                 fatalCount, failures, proc>>

SocketKinds ==
  [state : {"connecting", "open", "detached"}, waiter : {"none", "connect", "reconnect"},
   cur : BOOLEAN]

InitWS ==
  /\ impl \in Impls
  /\ batchSize = 1
  /\ PollerConstructed
  /\ WsConstructed
  /\ store = Rows
  /\ tx = NoTx
  /\ uniqueTradeId = SchemaUnique(impl)
  /\ lastInsert = NoInsert

NextWS ==
  \/ Connect
  \/ \E w \in SocketKinds : SocketOpens(w)
  \/ \E w \in SocketKinds : SocketCloses(w)
  \/ \E w \in SocketKinds : SocketFails(w)
  \/ \E w \in SocketKinds : ConnectTimeout(w)
  \/ \E i \in 1..MaxTimers : ReconnectTimerFires(i)
  \/ LivenessCheck
  \/ Shutdown
  \/ ShutdownDisconnects
  \/ ProcessExits

SpecWS == InitWS /\ [][NextWS]_vars

\* C9: the fatal condition is emitted at most once, and once it has been
\* emitted no reconnect timer is pending.
C9_FatalOnceThenQuiet ==
  /\ fatalCount <= 1
  /\ fatalCount >= 1 => timers = <<>>

\* C10: a connection failure, the n-th since the last successful open,
\* schedules its reconnect with the delay min(base * mult^n, max): every
\* timer that a step adds has that delay.
C10_Scheduling ==
  Len(timers') > Len(timers) =>
    \A k \in (Len(timers) + 1)..Len(timers') :
      timers'[k].delay = Delay(failures' - 1)
C10_DelayOfNthFailure == [][C10_Scheduling]_vars

\* isConnected: the field of binance-websocket, the method of binanceWebSocket
\* (this.ws !== null && this.ws.readyState === WebSocket.OPEN).
IsConnected(connected, socks) ==
  IF impl = "price-poller"
  THEN connected
  ELSE \E w \in BagToSet(socks) : w.cur /\ w.state = "open"

OpenSockets(socks) ==
  BagCardinality([w \in {v \in BagToSet(socks) : v.state = "open"} |-> socks[w]])

\* C11: a step in which a socket opens leaves the attempt counter at 0, the
\* client connected and the liveness / heartbeat interval running.
C11_OpenStep ==
  OpenSockets(sockets') > OpenSockets(sockets) =>
    /\ reconnectAttempts' = 0
    /\ IsConnected(isConnected', sockets')
    /\ pingInterval'
C11_OpenResets == [][C11_OpenStep]_vars

\* C13: once disconnect() has returned the client is disconnected and stays
\* so: no reconnect timer and no ping / heartbeat interval is pending, no
\* connection attempt is started and no trade event is emitted.
C13_Quiet ==
  proc = "disconnected" =>
    /\ timers = <<>>
    /\ ~pingInterval
    /\ ~IsConnected(isConnected, sockets)
C13_NothingNew ==
  proc = "disconnected" =>
    /\ BagCardinality(sockets') <= BagCardinality(sockets)
    /\ lastMsg' # lastMsg => ~lastMsg'.trade
C13_DisconnectIsFinal == [](C13_Quiet) /\ [][C13_NothingNew]_vars

\* The stream client with its messages, on a feed that comes back after at
\* most MaxMsgFailures failures in a row, while the process is up.
FeedStep ==
  \/ Connect
  \/ \E w \in SocketKinds : SocketOpens(w)
  \/ \E w \in SocketKinds : SocketCloses(w)
  \/ \E w \in SocketKinds : SocketFails(w)
  \/ \E w \in SocketKinds : ConnectTimeout(w)
  \/ \E i \in 1..MaxTimers : ReconnectTimerFires(i)
  \/ LivenessCheck

NextMsg ==
  \/ FeedStep /\ failures' <= MaxMsgFailures /\ proc' = "up"
  \/ \E m \in Messages : MessageArrives(m)

SpecMsg == InitWS /\ [][NextMsg]_vars

\* ------------------------------------------------ the stream client in time
\* checkInterval ms pass and the interval callback runs.  k checks after the
\* last message, Date.now() - lastMessageTime lies between (k - 1) and k
\* periods; where that range meets the threshold, either outcome of the
\* comparison is possible.  binance-websocket calls reconnect() when the
\* time exceeds the threshold; the binanceWebSocket heartbeat pings the open
\* socket and does nothing else.
Tick(forced) ==
  /\ proc # "exited"
  /\ silence < MaxSilence
  /\ silence' = silence + 1
  /\ (silence' - 1) * checkInterval >= silenceThreshold => forced
  /\ forced => silence' * checkInterval >= silenceThreshold
  /\ IF forced /\ pingInterval /\ impl = "price-poller"
     THEN reconnect(timers)
     ELSE UNCHANGED <<sockets, timers, pingInterval, isConnected>>
  /\ UNCHANGED <<impl, second, response, batchSize, pollerVars, dbVars, waited, lastMsg,
                 reconnectAttempts, connectCalled, fatalCount, failures, proc>>

NextLive ==
  \/ /\ \/ Connect
        \/ \E w \in SocketKinds : SocketOpens(w)
        \/ \E w \in SocketKinds : SocketCloses(w)
        \/ \E w \in SocketKinds : SocketFails(w)
        \/ \E w \in SocketKinds : ConnectTimeout(w)
        \/ \E i \in 1..MaxTimers : ReconnectTimerFires(i)
     /\ failures' <= MaxMsgFailures
     /\ proc' = "up"
  \/ \E m \in Messages : MessageArrives(m)
  \/ \E forced \in BOOLEAN : Tick(forced)

\* Time does not stop.
SpecLive ==
  /\ InitWS
  /\ [][NextLive]_vars
  /\ WF_vars(\E forced \in BOOLEAN : Tick(forced))

\* C12: a socket that is open and has delivered no message for the silence
\* threshold does not stay so: it is torn down and replaced (or a message
\* arrives, or it closes).
C12_OpenSilent ==
  /\ IsConnected(isConnected, sockets)
  /\ silence * checkInterval >= silenceThreshold
C12_SilentSocketReplaced == C12_OpenSilent ~> ~C12_OpenSilent

\* C20: a message that is not JSON, has neither the single-stream nor the
\* combined shape, or carries no known event tag is dropped: handling it
\* emits no trade event, lets no exception escape, and leaves the sockets, the
\* connected flag, the attempt counter, the reconnect timers and the ping
\* interval as they were.
C20_Droppable(m) ==
  m.text # "object" \/ (m.e # "trade" /\ m.data # "trade")
C20_Dropping ==
  lastMsg' # lastMsg /\ C20_Droppable(lastMsg') =>
    /\ ~lastMsg'.trade
    /\ ~lastMsg'.escaped
    /\ UNCHANGED <<sockets, isConnected, reconnectAttempts, timers,
                   pingInterval, fatalCount, proc>>
C20_MalformedDropped == [][C20_Dropping]_vars
C20_Witness ==
  /\ lastMsg.text = "garbage"
  /\ timers # <<>>
  /\ \E w \in BagToSet(sockets) : w.state = "open"

\* C14: stop() works in order: the batch timer is cancelled when the final
\* flush is handed over, the websocket is disconnected only after the persist
\* of that flush has settled and while the storage is still connected, and
\* the storage is disconnected only after the websocket.
C14_StopBegins == proc = "up" /\ proc' # "up"
C14_WsDisconnects == wsOpen /\ ~wsOpen'
C14_DbDisconnects == dbOpen /\ ~dbOpen'
C14_InOrder ==
  /\ C14_StopBegins => batchTimer' = <<>> /\ (buffer # <<>> => awaited' = buffer)
  /\ C14_WsDisconnects =>
       /\ proc \in {"up", "stopping"}
       /\ proc = "stopping" => awaited \notin inflight'
       /\ proc = "up" => buffer = <<>>
       /\ dbOpen'
  /\ C14_DbDisconnects => ~wsOpen /\ proc = "disconnected"
C14_StopInOrder == [][C14_InOrder]_vars
C14_Witness ==
  /\ proc = "exited"
  /\ awaited # <<>>
  /\ ~wsOpen
  /\ ~dbOpen

\* C15 (as stated): start() connects the storage, then starts the batch timer,
\* then connects the websocket: while the websocket is being connected the
\* storage is connected and the batch timer is armed.
C15_TimerBeforeStream == startPc = "ws" => dbOpen /\ batchTimer # <<>>

\* C15 (amended): start() connects the storage, then the websocket, then
\* starts the batch timer.  The websocket connect begins only with the
\* storage connected and the timer not armed, and the timer is armed, and
\* isRunning set, as soon as the connect has resolved.
C15_Starting ==
  /\ startPc' = "ws" => dbOpen' /\ batchTimer' = <<>> /\ ~wsOpen'
  /\ ~wsOpen /\ wsOpen' =>
       startPc = "ws" /\ dbOpen /\ batchTimer' # <<>> /\ isRunning'
C15_TimerWithStream == [][C15_Starting]_vars
C15_Witness ==
  /\ isRunning /\ wsOpen /\ dbOpen
  /\ batchTimer # <<>>
  /\ arrived = 0

\* C16: once the stream client has raised the fatal condition the
\* application is on its shutdown path, the one a normal stop takes: stop()
\* has been called, or has disconnected the client, or the process has exited.
C16_FatalStartsShutdown ==
  fatalCount > 0 => proc \in {"stopping", "disconnected", "exited"}

\* C17: shutdown makes one final flush attempt.  When the persist that stop()
\* awaits fails, its batch is dropped, not put back into the buffer, stop()
\* goes on to disconnect the websocket, and the records of that batch are
\* not handed to the database again.
C17_FinalFlushFails ==
  /\ proc = "stopping"
  /\ lastInsert'.n = lastInsert.n + 1
  /\ lastInsert'.trades = awaited
  /\ ~lastInsert'.ok
C17_Dropped ==
  C17_FinalFlushFails =>
    /\ Seqs(buffer') \cap Seqs(awaited) = {}
    /\ proc' = "disconnected"
    /\ ~wsOpen'
C17_NoSecondAttempt ==
  proc = "disconnected" => \A b \in inflight : Seqs(b) \cap Seqs(awaited) = {}
C17_OneFinalFlush == [][C17_Dropped]_vars /\ [](C17_NoSecondAttempt)

\* C18: a failed persist does not stop the pipeline.  After a persist fails
\* while the service is running, the service is still running, the stream
\* still delivers records, the batch timer is armed, and every record of the
\* failed batch is back in the buffer, to be flushed again.
C18_PersistFails ==
  /\ proc = "up"
  /\ isRunning
  /\ lastInsert'.n = lastInsert.n + 1
  /\ ~lastInsert'.ok
C18_StillRunning ==
  C18_PersistFails =>
    /\ proc' = "up"
    /\ isRunning'
    /\ wsOpen'
    /\ batchTimer' # <<>>
    /\ Seqs(lastInsert'.trades) \subseteq Seqs(buffer')
C18_FailureKeepsPipeline == [][C18_StillRunning]_vars

\* C19: every failed persist call of a running service adds exactly one to
\* the error metric, stores nothing and leaves its records in the buffer for
\* a later flush; the persist that succeeds leaves the metric alone and
\* stores one row for each record of its batch.
C19_PersistSettles ==
  /\ proc = "up"
  /\ isRunning
  /\ lastInsert'.n = lastInsert.n + 1
C19_Settled ==
  C19_PersistSettles =>
    IF lastInsert'.ok
    THEN /\ errorCount' = errorCount
         /\ \A id \in TradeIds :
              store'[id] = store[id] + Count(lastInsert'.trades, id)
    ELSE /\ errorCount' = errorCount + 1
         /\ store' = store
         /\ Seqs(lastInsert'.trades) \subseteq Seqs(buffer')
C19_FailuresCountedOnce == [][C19_Settled]_vars

\* ------------------------------------------------------- trade normalizer
\* Decimal texts are sequences of characters.
DigitChars == {"0", "1", "2", "5"}
DigitValue(c) == CASE c = "0" -> 0 [] c = "1" -> 1 [] c = "2" -> 2 [] c = "5" -> 5

RECURSIVE LeadingDigits(_)
LeadingDigits(text) ==
  IF text = <<>> \/ text[1] \notin DigitChars THEN <<>>
  ELSE <<text[1]>> \o LeadingDigits(Tail(text))

RECURSIVE Mantissa(_)
Mantissa(digits) ==
  IF digits = <<>> THEN 0
  ELSE Mantissa(SubSeq(digits, 1, Len(digits) - 1)) * 10
         + DigitValue(digits[Len(digits)])

\* parseFloat: an optional sign, digits, an optional point and digits; the
\* longest such prefix is the value (mant / 10^scale), text after it is
\* ignored, and NaN results when the prefix holds no digit.
parseFloat(text) ==
  LET neg == text # <<>> /\ text[1] = "-"
      body == IF neg THEN Tail(text) ELSE text
      int == LeadingDigits(body)
      rest == SubSeq(body, Len(int) + 1, Len(body))
      frac == IF rest # <<>> /\ rest[1] = "."
              THEN LeadingDigits(Tail(rest)) ELSE <<>>
  IN IF int = <<>> /\ frac = <<>> THEN NaN
     ELSE [nan |-> FALSE,
           mant |-> (IF neg THEN -1 ELSE 1) * Mantissa(int \o frac),
           scale |-> Len(frac)]

\* String.prototype.toUpperCase on the symbols of the feed.
toUpperCase(sym) == IF sym = "btcusdt" THEN "BTCUSDT" ELSE sym

\* The trade envelopes of the feed: s symbol ("undefined": the field is
\* missing), p price and q quantity as decimal text, m the maker flag.
Symbols == {"BTCUSDT", "btcusdt", "", "undefined"}
Decimals == {<<"1", ".", "5">>, <<"2">>, <<"0", ".", "0">>, <<"-", "2">>, <<"x">>}
Envelopes(id) == [s : Symbols, p : Decimals, q : Decimals, m : BOOLEAN, t : {id}]

\* The TradeData object each stack builds from the envelope.
TradeDataSidesSwapped(ev) ==
  [symbol |-> IF impl = "price-poller" THEN ev.s ELSE toUpperCase(ev.s),
   price |-> parseFloat(ev.p),
   quantity |-> parseFloat(ev.q),
   side |-> IF impl = "price-poller"
            THEN IF ev.m THEN "BUY" ELSE "SELL"
            ELSE IF ev.m THEN "buy" ELSE "sell",
   tradeId |-> ev.t]
TradeData(ev) ==
  [symbol |-> IF impl = "price-poller" THEN ev.s ELSE toUpperCase(ev.s),
   price |-> parseFloat(ev.p),
   quantity |-> parseFloat(ev.q),
   side |-> IF impl = "price-poller"
            THEN IF ev.m THEN "SELL" ELSE "BUY"
            ELSE IF ev.m THEN "sell" ELSE "buy",
   tradeId |-> ev.t]

\* binance-websocket handleTradeEvent: builds the trade and emits it.
handleTradeEvent(ev) ==
  [trade |-> TRUE, threw |-> FALSE, counted |-> FALSE, out |-> TradeData(ev)]

\* binanceWebSocket processTrade: toUpperCase() of a missing symbol throws;
\* the catch block logs and counts (errorCount++).
processTradeData(ev) ==
  IF ev.s = "undefined"
  THEN [trade |-> FALSE, threw |-> FALSE, counted |-> TRUE, out |-> NoTrade]
  ELSE [trade |-> TRUE, threw |-> FALSE, counted |-> FALSE, out |-> TradeData(ev)]

emitTrade(ev) ==
  IF impl = "price-poller" THEN Catch(handleTradeEvent(ev))
  ELSE processTradeData(ev)

\* A trade envelope arrives on the open socket; the poller's 'trade'
\* listener puts the emitted trade into the buffer.
TradeEventArrives(ev) ==
  /\ proc # "exited"
  /\ wsOpen
  /\ arrived < MaxEnvelopes
  /\ LET r == emitTrade(ev)
     IN /\ lastMsg' = [text |-> "object", e |-> "trade", data |-> "none",
                       trade |-> r.trade, escaped |-> r.threw,
                       counted |-> r.counted, event |-> ev, out |-> r.out]
        /\ IF r.trade
           THEN addTradeToBatch(r.out.tradeId)
           ELSE UNCHANGED <<buffer, inflight, batchTimer, arrived>>
  /\ silence' = 0
  /\ UNCHANGED <<impl, second, response, batchSize, dbOpen, awaited, isRunning, wsOpen, startPc,
                 errorCount, totalBatches, processed, dbVars, waited, sockets,
                 timers, reconnectAttempts, isConnected, pingInterval,
                 connectCalled, fatalCount, failures, proc>>

NormStep ==
  \/ StartCall
  \/ \E ok \in BOOLEAN : StartDbConnected(ok)
  \/ \E ok \in BOOLEAN : StartWsConnected(ok)
  \/ \E trades \in inflight : PersistResolves(trades, FALSE)

NextNorm ==
  \/ NormStep /\ UNCHANGED waited
  \/ \E ev \in Envelopes(arrived + 1) : TradeEventArrives(ev)

SpecNorm == InitPoller /\ [][NextNorm]_vars

\* C21: a trade envelope with an empty symbol, or with a price or quantity
\* that is not a number or not positive, is rejected: no trade event is
\* emitted, nothing reaches the buffer or a batch, the rejection is counted
\* and no exception escapes.
C21_Positive(x) == ~x.nan /\ x.mant > 0
C21_Malformed(ev) ==
  \/ ev.s = ""
  \/ ~C21_Positive(parseFloat(ev.p))
  \/ ~C21_Positive(parseFloat(ev.q))
C21_Rejecting ==
  (lastMsg' # lastMsg /\ lastMsg'.event # NoEvent
     /\ C21_Malformed(lastMsg'.event)) =>
    /\ ~lastMsg'.trade
    /\ lastMsg'.counted
    /\ ~lastMsg'.escaped
    /\ buffer' = buffer
    /\ inflight' = inflight
C21_MalformedTradeRejected == [][C21_Rejecting]_vars

\* The magnitude a well-formed decimal text denotes: its digits read as one
\* number, scaled by the number of digits after the point.
C22_WellFormed(text) ==
  /\ \A i \in DOMAIN text : text[i] \in DigitChars \cup {"."}
  /\ Cardinality({i \in DOMAIN text : text[i] = "."}) <= 1
  /\ \E i \in DOMAIN text : text[i] \in DigitChars
C22_IsDigit(c) == c \in DigitChars
C22_Value(text) ==
  [nan |-> FALSE,
   mant |-> Mantissa(SelectSeq(text, C22_IsDigit)),
   scale |-> IF \E i \in DOMAIN text : text[i] = "."
             THEN Len(text) - (CHOOSE i \in DOMAIN text : text[i] = ".")
             ELSE 0]
C22_Valid(ev) ==
  /\ ev.s \notin {"", "undefined"}
  /\ C22_WellFormed(ev.p) /\ C22_Value(ev.p).mant > 0
  /\ C22_WellFormed(ev.q) /\ C22_Value(ev.q).mant > 0
C22_Side(ev) == IF ev.m THEN {"sell", "SELL"} ELSE {"buy", "BUY"}
C22_UpperCase(sym) == IF sym = "btcusdt" THEN "BTCUSDT" ELSE sym
C22_ValidArrives ==
  /\ lastMsg' # lastMsg
  /\ lastMsg'.event # NoEvent
  /\ C22_Valid(lastMsg'.event)
C22_OneTrade ==
  /\ lastMsg'.trade
  /\ arrived' = arrived + 1
  /\ lastMsg'.out.side \in C22_Side(lastMsg'.event)
  /\ lastMsg'.out.tradeId = lastMsg'.event.t
  /\ lastMsg'.out.price = C22_Value(lastMsg'.event.p)
  /\ lastMsg'.out.quantity = C22_Value(lastMsg'.event.q)

\* C22 as stated: a valid trade envelope yields exactly one trade event with
\* the side of its maker flag and with the symbol, trade id, price and
\* quantity of the envelope.
C22_Verbatim ==
  C22_ValidArrives =>
    C22_OneTrade /\ lastMsg'.out.symbol = lastMsg'.event.s
C22_EnvelopeCopied == [][C22_Verbatim]_vars

\* C22 amended: a valid trade envelope yields exactly one trade event with
\* the side of its maker flag and the trade id, price and quantity of the
\* envelope; its symbol is the envelope's symbol, which the binanceWebSocket
\* normalizer converts to upper case.
C22_Normalized ==
  C22_ValidArrives =>
    /\ C22_OneTrade
    /\ lastMsg'.out.symbol = IF impl = "pricePoller"
                             THEN C22_UpperCase(lastMsg'.event.s)
                             ELSE lastMsg'.event.s
C22_TradeOfEnvelope == [][C22_Normalized]_vars

\* C22 witness: a valid sell envelope with a lower-case symbol has been
\* turned into a trade whose symbol is in upper case.
C22_Witness ==
  /\ C22_Valid(lastMsg.event)
  /\ lastMsg.event.m
  /\ lastMsg.event.s = "btcusdt"
  /\ lastMsg.trade
  /\ lastMsg.out.symbol = "BTCUSDT"
  /\ lastMsg.out.side = "sell"
  /\ lastMsg.out.price = [nan |-> FALSE, mant |-> 15, scale |-> 1]
  /\ Len(buffer) = 1

\* C23: a flush() / flushBuffer() call on a non-empty buffer hands all the
\* pending records to insertTradesBatch as one batch and leaves the buffer
\* empty; on an empty buffer it calls nothing and changes nothing.
C23_FlushCall ==
  Flush =>
    IF buffer # <<>>
    THEN /\ buffer' = <<>>
         /\ inflight' = inflight \cup {buffer}
         /\ store' = store
    ELSE UNCHANGED vars
C23_FlushHandsAll == [][C23_FlushCall]_vars

\* C23 witness: a batch of two records failed and went back to the buffer;
\* both records have been handed over again as one batch, the buffer is empty.
C23_Witness ==
  /\ arrived = 2
  /\ lastInsert.n = 1
  /\ ~lastInsert.ok
  /\ Len(lastInsert.trades) = 2
  /\ buffer = <<>>
  /\ inflight = {lastInsert.trades}

\* ------------------------------------------------------ HealthCheckService
\* What a health check does: resolve true, resolve false, or throw / reject.
Outcomes == {"true", "false", "throws"}

\* getHealthStatus: Promise.all over the three checks rejects when one of
\* them throws; otherwise the status is healthy iff all three are true.
getHealthStatusAnyOf(db, ws, poller) ==
  IF "throws" \in {db, ws, poller}
  THEN [threw |-> TRUE, status |-> "none"]
  ELSE [threw |-> FALSE,
        status |-> IF db = "true" \/ ws = "true" \/ poller = "true"
                   THEN "healthy" ELSE "unhealthy"]
getHealthStatus(db, ws, poller) ==
  IF "throws" \in {db, ws, poller}
  THEN [threw |-> TRUE, status |-> "none"]
  ELSE [threw |-> FALSE,
        status |-> IF db = "true" /\ ws = "true" /\ poller = "true"
                   THEN "healthy" ELSE "unhealthy"]

\* The GET /health handler of HealthCheckService.  A check reports healthy only
\* in a state that allows it: the database connected, the websocket open,
\* the poller running.
GetHealth(db, ws, poller) ==
  /\ proc # "exited"
  /\ db = "true" => dbOpen
  /\ ws = "true" => wsOpen
  /\ poller = "true" => isRunning /\ dbOpen /\ wsOpen
  /\ LET r == getHealthStatus(db, ws, poller)
     IN response' =
          IF r.threw
          THEN [code |-> 503, status |-> "unhealthy", error |-> TRUE,
                checks |-> <<db, ws, poller>>]
          ELSE [code |-> IF r.status = "healthy" THEN 200 ELSE 503,
                status |-> r.status, error |-> FALSE,
                checks |-> <<db, ws, poller>>]
  /\ UNCHANGED <<impl, second, batchSize, pollerVars, dbVars, waited, wsVars>>

InitHealth == InitPoller /\ impl = "price-poller"

NextHealth ==
  \/ StartCall /\ UNCHANGED waited
  \/ \E ok \in BOOLEAN : StartDbConnected(ok) /\ UNCHANGED waited
  \/ \E ok \in BOOLEAN : StartWsConnected(ok) /\ UNCHANGED waited
  \/ \E signal \in BOOLEAN : StopCall(signal) /\ UNCHANGED waited
  \/ StopDbDisconnected /\ UNCHANGED waited
  \/ \E db, ws, poller \in Outcomes : GetHealth(db, ws, poller)

SpecHealth == InitHealth /\ [][NextHealth]_vars

\* C24: GET /health answers 200 with status healthy exactly when the
\* database, the websocket and the price-poller check all reported healthy;
\* in every other case, a check that throws included, it answers 503 with
\* status unhealthy.
C24_AllHealthy == response.checks = <<"true", "true", "true">>
C24_HealthAnswer ==
  response # NoResponse =>
    /\ (response.code = 200 /\ response.status = "healthy") <=> C24_AllHealthy
    /\ ~C24_AllHealthy => response.code = 503 /\ response.status = "unhealthy"

\* C24 witness: the poller check threw while the other two reported healthy,
\* and the answer is 503 unhealthy.
C24_Witness ==
  /\ response.checks = <<"true", "true", "throws">>
  /\ response.code = 503
  /\ response.error

\* C25: a connection failure below the attempt limit (an established socket
\* closes, or one connection attempt fails or times out) leaves the client
\* not connected, adds exactly one reconnect timer and increments the
\* attempt counter by exactly one.
C25_Failure ==
  /\ failures' = failures + 1
  /\ proc' # "exited"
  /\ reconnectAttempts < maxReconnectAttempts
C25_OneReconnect ==
  C25_Failure =>
    /\ ~IsConnected(isConnected', sockets')
    /\ Len(timers') = Len(timers) + 1
    /\ reconnectAttempts' = reconnectAttempts + 1
C25_OneReconnectPerFailure == [][C25_OneReconnect]_vars

\* ------------------------------------------- the poller on a store that recovers
\* The running poller: timer ticks keep occurring, persists settle, and
\* after MaxInserts failures the store accepts every batch.
RetryTick == TimerFires /\ UNCHANGED waited
RetrySettles ==
  \E trades \in inflight, outage \in BOOLEAN :
    PersistSettles(trades, outage) /\ UNCHANGED waited

NextRetry ==
  \/ StartCall /\ UNCHANGED waited
  \/ \E ok \in BOOLEAN : StartDbConnected(ok) /\ UNCHANGED waited
  \/ \E ok \in BOOLEAN : StartWsConnected(ok) /\ UNCHANGED waited
  \/ arrived < MaxRetried /\ AddTrade(arrived + 1) /\ UNCHANGED waited
  \/ Flush /\ UNCHANGED waited
  \/ RetryTick
  \/ RetrySettles

SpecRetry ==
  /\ InitPoller
  /\ [][NextRetry]_vars
  /\ WF_vars(RetryTick)
  /\ WF_vars(RetrySettles)

\* C26: on a running service whose timer keeps ticking and whose store
\* recovers, every record in the buffer or in a failed batch is eventually
\* stored, unless the overflow policy of price-poller discarded it.
C26_Pending(id) ==
  \/ id \in Ids(buffer)
  \/ \E b \in inflight : id \in Ids(b)
C26_Discarded(id) ==
  /\ impl = "price-poller"
  /\ id <= arrived
  /\ ~C26_Pending(id)
  /\ store[id] = 0
C26_EventuallyPersisted ==
  \A id \in 1..MaxRetried :
    C26_Pending(id) ~> (store[id] > 0 \/ C26_Discarded(id))

\* C26 witness: the only record's batch failed MaxInserts times and the
\* record is stored.
C26_Witness ==
  /\ arrived = 1
  /\ lastInsert.n = MaxInserts
  /\ lastInsert.ok
  /\ store[1] = 1
  /\ buffer = <<>>

\* C27: at most one insertTradesBatch call of the poller is in flight at any
\* time, and no step starts a persist while another one is in flight.
C27_Flushing == inflight # {}
C27_NoSecondPersist == C27_Flushing => inflight' \subseteq inflight
C27_OnePersistInFlight ==
  [](Cardinality(inflight) <= 1) /\ [][C27_NoSecondPersist]_vars

\* C28: at most one WebSocket with its listeners attached is alive at any
\* time, and a step that starts a connection attempt leaves only the new
\* socket alive.
C28_Attached(socks) ==
  BagCardinality([w \in {v \in BagToSet(socks) : v.state # "detached"}
                    |-> socks[w]])
C28_AttemptStarts ==
  \E w \in BagToSet(sockets') :
    w.state = "connecting" /\ CopiesIn(w, sockets') > CopiesIn(w, sockets)
C28_OnlyTheNewSocket == C28_AttemptStarts => C28_Attached(sockets') = 1
C28_OneSocketAlive ==
  [](C28_Attached(sockets) <= 1) /\ [][C28_OnlyTheNewSocket]_vars

\* C29: the process exits on a shutdown signal only from the state in which
\* the final flush has settled and the websocket is disconnected, and with
\* the storage disconnected.
C29_ExitsOnShutdown ==
  /\ proc # "exited"
  /\ proc' = "exited"
  /\ startPc = "idle"
C29_ShutdownDone ==
  C29_ExitsOnShutdown =>
    /\ proc = "disconnected"
    /\ ~wsOpen'
    /\ ~dbOpen'
C29_ExitAfterShutdown == [][C29_ShutdownDone]_vars

\* C30: when stop() completes and the persist that settled last did not
\* fail, the buffer is empty: every record that add accepted, also while the
\* final flush was awaited, has been handed to insertTradesBatch.
C30_StopCompletes == proc = "disconnected" /\ proc' = "exited"
C30_AllHandedOver ==
  (C30_StopCompletes /\ lastInsert.ok) => buffer' = <<>>
C30_NothingLeftBehind == [][C30_AllHandedOver]_vars

\* C31: in the step in which stop() disconnects the storage no
\* insertTradesBatch call is in flight.
C31_StorageDisconnects == dbOpen /\ ~dbOpen'
C31_NoneInFlight == C31_StorageDisconnects => inflight = {}
C31_PersistsSettledFirst == [][C31_NoneInFlight]_vars

\* C32: once stop() has got past its final flush, and after it has
\* completed, no batch timer is armed; no start() follows in this model.
C32_Stopped == ~isRunning /\ proc \in {"disconnected", "exited"}
C32_NoTimerAfterStop == C32_Stopped => batchTimer = <<>>

\* ------------------------------------------- a second start() or stop() call
\* start() is called again after the first call: with isRunning set it
\* returns, otherwise it goes on to `await db.connect()` like the first.
StartAgain ==
  /\ proc = "up"
  /\ second.start = "idle"
  /\ startPc # "idle" \/ isRunning
  /\ second' = [second EXCEPT !.start = IF isRunning THEN "returned" ELSE "db"]
  /\ UNCHANGED <<impl, batchSize, pollerVars, dbVars, waited, wsVars, response>>

\* The second call's db.connect() resolves, after the first call's, and the
\* call runs on into websocket.connect(): price-poller's createConnection
\* makes a new WebSocket; pricePoller's connect() returns when the first
\* call's socket is OPEN and makes a new WebSocket while it is CONNECTING.
StartAgainDbConnected ==
  /\ proc = "up"
  /\ second.start = "db"
  /\ startPc = "ws" \/ isRunning
  /\ second' = [second EXCEPT
                  !.start = "ws",
                  !.sockets = IF impl = "pricePoller" /\ wsOpen THEN 0 ELSE 1]
  /\ UNCHANGED <<impl, batchSize, pollerVars, dbVars, waited, wsVars, response>>

\* The second call's websocket.connect() settles, after the first call's:
\* price-poller's startBatchProcessing sets another interval over the handle
\* of the first, pricePoller's startBatchTimer clears the first call's timer
\* and arms its own; isRunning is set again.
StartAgainWsConnected(ok) ==
  /\ proc = "up"
  /\ second.start = "ws"
  /\ isRunning
  /\ second.sockets = 0 => ok
  /\ second' = [second EXCEPT
                  !.start = IF ok THEN "done" ELSE "failed",
                  !.sockets = IF ok THEN @ ELSE 0,
                  !.timers = IF ok /\ impl = "price-poller" THEN 1 ELSE 0]
  /\ batchTimer' = IF ok /\ impl = "pricePoller"
                   THEN startBatchTimer ELSE batchTimer
  /\ UNCHANGED <<impl, batchSize, isRunning, wsOpen, startPc, buffer, inflight,
                 errorCount, totalBatches, processed, arrived, dbOpen, awaited,
                 dbVars, waited, wsVars, response>>

\* stop() is called again while the first call is awaiting its final flush or
\* the storage disconnect.  price-poller's stop() finds isRunning reset and
\* returns; pricePoller's stop() has no such test: it clears the timer, hands
\* a non-empty buffer to processBatch and awaits it, and with an empty buffer
\* calls binanceWS.disconnect() and db.disconnect() again.
StopAgain ==
  /\ proc \in {"stopping", "disconnected"}
  /\ second.stop = "idle"
  /\ IF impl = "price-poller"
     THEN /\ second' = [second EXCEPT !.stop = "returned"]
          /\ UNCHANGED <<isRunning, batchTimer, buffer, inflight, wsOpen>>
     ELSE /\ isRunning' = FALSE
          /\ batchTimer' = <<>>
          /\ IF buffer = <<>>
             THEN /\ wsOpen' = FALSE
                  /\ second' = [second EXCEPT !.stop = "disconnecting"]
                  /\ UNCHANGED <<buffer, inflight>>
             ELSE /\ buffer' = <<>>
                  /\ inflight' = inflight \cup {buffer}
                  /\ second' = [second EXCEPT !.stop = "flushing",
                                              !.awaited = buffer]
                  /\ UNCHANGED wsOpen
  /\ UNCHANGED <<impl, batchSize, startPc, errorCount, totalBatches, processed,
                 arrived, dbOpen, awaited, dbVars, waited, wsVars, response>>

\* The processBatch the second stop() awaits has settled: stop() runs on to
\* binanceWS.disconnect() and db.disconnect().
StopAgainFlushed ==
  /\ proc # "exited"
  /\ second.stop = "flushing"
  /\ second.awaited \notin inflight
  /\ wsOpen' = FALSE
  /\ second' = [second EXCEPT !.stop = "disconnecting"]
  /\ UNCHANGED <<impl, batchSize, isRunning, startPc, buffer, batchTimer,
                 inflight, errorCount, totalBatches, processed, arrived, dbOpen,
                 awaited, dbVars, waited, wsVars, response>>

\* The second stop()'s `await this.db.disconnect()` settles and the second
\* gracefulShutdown calls process.exit.
StopAgainDbDisconnected ==
  /\ proc # "exited"
  /\ second.stop = "disconnecting"
  /\ dbOpen' = FALSE
  /\ second' = [second EXCEPT !.stop = "done"]
  /\ proc' = "exited"
  /\ UNCHANGED <<impl, batchSize, isRunning, wsOpen, startPc, buffer,
                 batchTimer, inflight, errorCount, totalBatches, processed,
                 arrived, awaited, dbVars, waited, clientVars, response>>

NextAgain ==
  \/ PollerStep /\ UNCHANGED waited
  \/ TimerFires /\ UNCHANGED waited
  \/ \E signal \in BOOLEAN : StopCall(signal) /\ UNCHANGED waited
  \/ StopDbDisconnected /\ UNCHANGED waited
  \/ StartAgain
  \/ StartAgainDbConnected
  \/ \E ok \in BOOLEAN : StartAgainWsConnected(ok)
  \/ StopAgain
  \/ StopAgainFlushed
  \/ StopAgainDbDisconnected

SpecAgain == InitPoller /\ [][NextAgain]_vars

\* C33: a second stop() call starts no second final flush and no second
\* disconnect of the websocket or of the storage: it returns at once.
C33_StopIdempotent == second.stop \in {"idle", "returned"}

\* C34: when a second start() call has run to its end, it has added no
\* WebSocket and no batch timer to those of the first call.
C34_StartIdempotent ==
  second.start = "done" => second.sockets = 0 /\ second.timers = 0

\* C35: in every reachable state of the websocket client the attempt counter
\* lies between 0 and maxReconnectAttempts.
C35_AttemptsInRange == reconnectAttempts \in 0..maxReconnectAttempts
\* scheduleReconnect() has been called at the limit and has given up.
C35_Witness == reconnectAttempts = maxReconnectAttempts /\ fatalCount >= 1

\* ------------------------------------------- insertTradesBatch step by step
\* The table after `ROLLBACK`, or after the session of an open transaction
\* has ended: as it was at BEGIN.
RollbackSkipped(rows, snapshot) == rows
Rollback(rows, snapshot) == snapshot

\* The finally block: client.release().
releaseUnlessRollbackFailed(t) ==
  IF t.error = "rollback" THEN t
  ELSE [t EXCEPT !.out = @ - 1, !.released = @ + 1]
release(t) == [t EXCEPT !.out = @ - 1, !.released = @ + 1]

\* insertTradesBatch(trades) is called: an empty batch returns at once;
\* otherwise `await this.pool.connect()`, which rejects before the try block
\* is entered or yields a client.  database/index.ts goes on to BEGIN,
\* services/database.ts to its one statement.
TxCall(trades, ok) ==
  /\ tx.pc = "idle"
  /\ tx.calls < MaxCalls
  /\ trades = <<>> => ok
  /\ tx' = IF trades = <<>> \/ ~ok
           THEN [tx EXCEPT !.trades = trades, !.i = 0, !.snapshot = store,
                           !.error = IF ok THEN "none" ELSE "connect",
                           !.calls = @ + 1, !.acquired = 0, !.released = 0]
           ELSE [tx EXCEPT !.pc = IF impl = "price-poller"
                                  THEN "begin" ELSE "insert",
                           !.trades = trades, !.i = 1, !.snapshot = store,
                           !.error = "none", !.out = @ + 1, !.calls = @ + 1,
                           !.acquired = 1, !.released = 0]
  /\ UNCHANGED <<impl, second, response, batchSize, pollerVars, store,
                 uniqueTradeId, lastInsert, waited, wsVars>>

\* `await client.query('BEGIN')` settles.
TxBegin(ok) ==
  /\ tx.pc = "begin"
  /\ tx' = [tx EXCEPT !.pc = IF ok THEN "insert" ELSE "rollback",
                      !.error = IF ok THEN "none" ELSE "query"]
  /\ UNCHANGED <<impl, second, response, batchSize, pollerVars, store,
                 uniqueTradeId, lastInsert, waited, wsVars>>

\* An INSERT settles.  database/index.ts: the INSERT of trade i, which fails
\* on a unique violation too; after the last one COMMIT follows.
\* services/database.ts: the one INSERT ... ON CONFLICT DO NOTHING of the
\* whole batch, in its own implicit transaction, and then the finally block.
TxInsert(ok) ==
  /\ tx.pc = "insert"
  /\ IF impl = "price-poller"
     THEN LET id == tx.trades[tx.i].tradeId
              good == ok /\ ~(uniqueTradeId /\ store[id] > 0)
          IN /\ store' = IF good THEN [store EXCEPT ![id] = @ + 1] ELSE store
             /\ tx' = IF good
                      THEN [tx EXCEPT !.i = @ + 1,
                                      !.pc = IF tx.i = Len(tx.trades)
                                             THEN "commit" ELSE "insert"]
                      ELSE [tx EXCEPT !.pc = "rollback", !.error = "query"]
     ELSE /\ store' = InsertOnConflict(store, tx.trades, ~ok).rows
          /\ tx' = [tx EXCEPT !.pc = "release",
                              !.i = IF ok THEN Len(tx.trades) + 1 ELSE @,
                              !.error = IF ok THEN "none" ELSE "query"]
  /\ UNCHANGED <<impl, second, response, batchSize, pollerVars, uniqueTradeId,
                 lastInsert, waited, wsVars>>

\* `await client.query('COMMIT')` settles.
TxCommit(ok) ==
  /\ tx.pc = "commit"
  /\ tx' = [tx EXCEPT !.pc = IF ok THEN "release" ELSE "rollback",
                      !.error = IF ok THEN "none" ELSE "query"]
  /\ UNCHANGED <<impl, second, response, batchSize, pollerVars, store,
                 uniqueTradeId, lastInsert, waited, wsVars>>

\* The catch block: `await client.query('ROLLBACK')` settles; when it rejects
\* (the session is gone, and the open transaction with it) its error is what
\* the call rejects with, otherwise the caught error is rethrown.
TxRollback(ok) ==
  /\ tx.pc = "rollback"
  /\ store' = Rollback(store, tx.snapshot)
  /\ tx' = [tx EXCEPT !.pc = "release",
                      !.error = IF ok THEN "query" ELSE "rollback"]
  /\ UNCHANGED <<impl, second, response, batchSize, pollerVars, uniqueTradeId,
                 lastInsert, waited, wsVars>>

\* The finally block runs and the call settles.
TxRelease ==
  /\ tx.pc = "release"
  /\ tx' = [release(tx) EXCEPT !.pc = "idle"]
  /\ UNCHANGED <<impl, second, response, batchSize, pollerVars, store,
                 uniqueTradeId, lastInsert, waited, wsVars>>

NextTx ==
  \/ \E trades \in Batches, ok \in BOOLEAN : TxCall(trades, ok)
  \/ \E ok \in BOOLEAN : TxBegin(ok)
  \/ \E ok \in BOOLEAN : TxInsert(ok)
  \/ \E ok \in BOOLEAN : TxCommit(ok)
  \/ \E ok \in BOOLEAN : TxRollback(ok)
  \/ TxRelease

SpecTx == InitDB /\ [][NextTx]_vars

\* C36: when an insertTradesBatch call has settled, the table holds all rows
\* of the batch if the call resolved and is as it was before the call if the
\* call rejected; the call rejects if a query failed; an empty batch resolves
\* without a client having been taken from the pool.
C36_Stored(rows, trades) ==
  IF impl = "price-poller"
  THEN [id \in TradeIds |-> rows[id] + Count(trades, id)]
  ELSE [id \in TradeIds |->
          IF id \in Ids(trades) /\ rows[id] = 0 THEN 1 ELSE rows[id]]
C36_AllOrNothing ==
  tx.pc = "idle" =>
    /\ tx.error # "none" => store = tx.snapshot
    /\ tx.error = "none" => store = C36_Stored(tx.snapshot, tx.trades)
    /\ tx.i \in 1..Len(tx.trades) => tx.error # "none"
    /\ tx.trades = <<>> => tx.error = "none" /\ tx.acquired = 0
\* A call of database/index.ts has rejected after its first INSERT succeeded.
C36_Witness ==
  /\ impl = "price-poller"
  /\ tx.pc = "idle" /\ tx.calls > 0
  /\ tx.error = "query" /\ tx.i = 2 /\ Len(tx.trades) = 2

\* C40: a client taken from the pool by insertTradesBatch is released exactly
\* once by the time the call settles, and never before: outside a call no
\* client is checked out, inside a call exactly the one the call acquired.
C40_ReleasedOnce ==
  /\ tx.pc = "idle" => tx.out = 0 /\ tx.released = tx.acquired
  /\ tx.pc # "idle" => tx.out = 1 /\ tx.released = 0 /\ tx.acquired = 1
\* A call whose ROLLBACK failed has settled and has released its client.
C40_Witness ==
  tx.pc = "idle" /\ tx.error = "rollback" /\ tx.released = 1

\* C37: the processed-record count (metrics.tradesProcessed of price-poller,
\* totalTrades of pricePoller) rises by the length of the batch in a step in
\* which a persist settles successfully and changes in no other step; the
\* batch count of pricePoller rises by one in just those steps.
C37_ProcessedCount == IF impl = "price-poller" THEN processed ELSE arrived
C37_Persisted ==
  IF inflight' # inflight /\ inflight' \subseteq inflight /\ lastInsert'.ok
  THEN Len(lastInsert'.trades) ELSE 0
C37_Counted ==
  /\ C37_ProcessedCount' = C37_ProcessedCount + C37_Persisted
  /\ totalBatches' = totalBatches
                       + (IF C37_Persisted > 0 /\ impl = "pricePoller"
                          THEN 1 ELSE 0)
C37_CountsOnSuccess == [][C37_Counted]_vars

\* ------------------------------------- single-stream and combined messages
\* A parsed message as an object: its own event tag and trade fields, and the
\* stream and data properties of the combined-stream wrapper ("none",
\* NoObject: the property is missing).
NoObject == [e |-> "none", s |-> "none", p |-> <<>>, q |-> <<>>, m |-> FALSE,
             t |-> 0]
TradeObject(ev) ==
  [e |-> "trade", s |-> ev.s, p |-> ev.p, q |-> ev.q, m |-> ev.m, t |-> ev.t]
SingleStream(ev) ==
  [e |-> "trade", s |-> ev.s, p |-> ev.p, q |-> ev.q, m |-> ev.m, t |-> ev.t,
   stream |-> "none", data |-> NoObject]
CombinedStream(ev) ==
  [e |-> "none", s |-> "none", p |-> <<>>, q |-> <<>>, m |-> FALSE, t |-> 0,
   stream |-> "btcusdt@trade", data |-> TradeObject(ev)]
\* The messages followed: every envelope whose quantity reads as its price,
\* in both forms.
StreamEnvelopes(id) == {ev \in Envelopes(id) : ev.q = ev.p}
StreamMessages(id) ==
  {SingleStream(ev) : ev \in StreamEnvelopes(id)}
    \cup {CombinedStream(ev) : ev \in StreamEnvelopes(id)}

\* The message itself as the object handed on, and the envelope fields that
\* handleTradeEvent / processTrade read from the object they are handed.
Own(msg) ==
  [e |-> msg.e, s |-> msg.s, p |-> msg.p, q |-> msg.q, m |-> msg.m, t |-> msg.t]
Fields(obj) ==
  [s |-> obj.s, p |-> obj.p, q |-> obj.q, m |-> obj.m, t |-> obj.t]
NothingEmitted ==
  [trade |-> FALSE, threw |-> FALSE, counted |-> FALSE, out |-> NoTrade]

\* binance-websocket processEvent(event): switch (event.e), case 'trade'.
\* binanceWebSocket: the test `.e === 'trade'` before processTrade.
processEventObject(obj) ==
  IF obj.e # "trade" THEN NothingEmitted
  ELSE IF impl = "price-poller" THEN handleTradeEvent(Fields(obj))
  ELSE processTradeData(Fields(obj))

\* handleMessage handing the wrapper itself on instead of its data.
handleMessageObjectWrapper(msg) ==
  Catch(processEventObject(Own(msg)))

\* handleMessage on a parsed object.  binance-websocket: a message with an
\* event tag is handed on itself, otherwise a message with stream and data
\* has its data handed on.  binanceWebSocket: a message with stream and data
\* has its data handed on, otherwise the message itself.
handleMessageObject(msg) ==
  IF impl = "price-poller"
  THEN Catch(IF msg.e # "none" THEN processEventObject(Own(msg))
             ELSE IF msg.stream # "none" /\ msg.data # NoObject
                  THEN processEventObject(msg.data)
             ELSE NothingEmitted)
  ELSE IF msg.stream # "none" /\ msg.data # NoObject
       THEN processEventObject(msg.data)
       ELSE processEventObject(Own(msg))

\* A message in either form arrives on the open socket; the poller's 'trade'
\* listener puts the emitted trade into the buffer.
StreamMessageArrives(msg) ==
  /\ proc # "exited"
  /\ wsOpen
  /\ arrived < MaxStreamMessages
  /\ LET r == handleMessageObject(msg)
     IN /\ lastMsg' = [text |-> "object", e |-> msg.e, data |-> msg.data.e,
                       trade |-> r.trade, escaped |-> r.threw,
                       counted |-> r.counted,
                       event |-> IF msg.e = "trade" THEN Fields(Own(msg))
                                 ELSE Fields(msg.data),
                       out |-> r.out]
        /\ IF r.trade
           THEN addTradeToBatch(r.out.tradeId)
           ELSE UNCHANGED <<buffer, inflight, batchTimer, arrived>>
  /\ silence' = 0
  /\ UNCHANGED <<impl, second, response, batchSize, dbOpen, awaited,
                 isRunning, wsOpen, startPc, errorCount, totalBatches,
                 processed, dbVars, waited, sockets, timers,
                 reconnectAttempts, isConnected, pingInterval, connectCalled,
                 fatalCount, failures, proc>>

NextStream ==
  \/ NormStep /\ UNCHANGED waited
  \/ \E msg \in StreamMessages(arrived + 1) : StreamMessageArrives(msg)

SpecStream == InitPoller /\ [][NextStream]_vars

\* C38: the handler's answer to a combined-stream message whose data is a
\* trade envelope (whether a trade event is emitted, the trade emitted, what
\* is thrown and counted) is its answer to the same envelope in
\* single-stream form.
C38_Answer(r) == <<r.trade, r.out, r.threw, r.counted>>
C38_SameTradeEvent ==
  lastMsg.data = "trade" =>
    <<lastMsg.trade, lastMsg.out, lastMsg.escaped, lastMsg.counted>>
      = C38_Answer(handleMessageObject(SingleStream(lastMsg.event)))
\* A combined-stream message has produced a trade event.
C38_Witness ==
  /\ lastMsg.data = "trade" /\ lastMsg.e = "none"
  /\ lastMsg.trade /\ lastMsg.out.symbol = "BTCUSDT"
  /\ Len(buffer) + Cardinality(inflight) > 0

\* C39: a batch the Writer holds stays as it is, in contents and order, in
\* every step (an add, a flush, a requeue, stop) until its own persist
\* settles, and at most one batch leaves the Writer in a step.
C39_Kept ==
  /\ \A b \in inflight : b \in inflight' \/ lastInsert'.trades = b
  /\ Cardinality(inflight \ inflight') <= 1
C39_BatchNeverMutated == [][C39_Kept]_vars
\* A batch is held while an earlier batch has failed and been put back into
\* the buffer.
C39_Witness ==
  \E b \in inflight :
    /\ ~lastInsert.ok /\ lastInsert.trades # <<>>
    /\ Seqs(lastInsert.trades) \subseteq Seqs(buffer)
    /\ Seqs(lastInsert.trades) \cap Seqs(b) = {}

====
